---- MODULE Spec2Model ----
(***************************************************************************)
(* A model of final.py: the PolitiFact collector (scrape_politifact), the  *)
(* text normaliser (clean_text), the memoised fact-check verifier          *)
(* (get_fact_check_result under st.cache_data) and the batch driver        *)
(* (verify_all).                                                           *)
(***************************************************************************)
EXTENDS Integers, Sequences, FiniteSets, TLC

VARIABLES
    \* ---- scrape_politifact ----
    start_date,   \* argument: Timestamp (encoded YYYYMMDD)
    end_date,     \* argument: Timestamp (encoded YYYYMMDD)
    next_page,    \* URL of the page to fetch next, or NONE
    page_count,   \* pages requested so far
    total_rows,   \* rows written so far
    buffer,       \* the csv rows written (header excluded)
    soup,         \* the parsed page: cards not yet examined, the Next button
    spc,          \* position in scrape_politifact
    df,           \* the table scrape_politifact returned
    data_file,    \* contents of DATA_FILE
    errors,       \* st.error calls of the run
    older_seen,   \* an item dated before start_date was encountered
    last_date,    \* claim_date of the card examined last on this page (0: none)
    listing,      \* date texts the first page is known to carry (<<>>: any page)
    first_no_next, \* index of the first fetched page without a Next link (0: none)
    \* ---- clean_text ----
    text_in,      \* the argument
    text_once,    \* clean_text(text_in)
    text_twice,   \* clean_text(clean_text(text_in))
    cpc,          \* how often clean_text was applied
    \* ---- get_fact_check_result, verify_all ----
    FACT_API_KEY, \* the credential read at startup, or NONE
    cache,        \* st.cache_data's entries: statement -> [value, stored]
    now,          \* the clock, in seconds
    ticks,        \* how often the clock advanced
    anchor,       \* per statement, the result computed (not served from the
                  \* cache) within the last CACHE_TTL seconds, and its time
    last_call,    \* the last call of get_fact_check_result in this verify_all
    vpc,          \* position in verify_all
    vrows,        \* len(df) of verify_all's table
    vdf,          \* the statement column of the rows iterated so far
    results,      \* verify_all's results list
    out,          \* the table verify_all returned
    api_body,     \* a response body of the fact-check API
    api_result    \* what get_fact_check_result makes of api_body

scrapeVars == <<start_date, end_date, next_page, page_count, total_rows, buffer,
                soup, spc, df, data_file, errors, older_seen, last_date, listing,
                first_no_next>>
cleanVars == <<text_in, text_once, text_twice, cpc>>
verifyVars == <<FACT_API_KEY, cache, now, ticks, anchor, last_call, vpc, vrows, vdf,
                results, out>>
classifyVars == <<api_body, api_result>>

vars == <<scrapeVars, cleanVars, verifyVars, classifyVars>>

\* Python's None, pandas' NaN, and an exception leaving a function.
NONE == "<None>"
NAN == "<NaN>"
RAISED == "<raised>"

(***************************************************************************)
(* Bounds of the model.                                                    *)
(***************************************************************************)
\* cards a listing page carries at most
MaxCards == 2
\* rows a run collects at most from pages that are not the known listing
MaxRows == 2

(***************************************************************************)
(* Dates.  A Timestamp is encoded as year*10000 + month*100 + day, which   *)
(* orders as the calendar does.                                            *)
(***************************************************************************)
MonthNum(name) ==
    CASE name = "January" -> 1
      [] name = "February" -> 2
      [] name = "December" -> 12
      [] OTHER -> 0

IsLeap(y) == (y % 4 = 0 /\ y % 100 # 0) \/ y % 400 = 0

DaysInMonth(m, y) ==
    CASE m = 2 -> IF IsLeap(y) THEN 29 ELSE 28
      [] m \in {4, 6, 9, 11} -> 30
      [] OTHER -> 31

VALUE_ERROR == -1

\* pd.to_datetime on the text "<month> <day>, <year>" the regex captured.
ToDatetime(t) ==
    LET m == MonthNum(t.month) IN
    IF m = 0 \/ t.day < 1 \/ t.day > DaysInMonth(m, t.year)
    THEN VALUE_ERROR
    ELSE t.year * 10000 + m * 100 + t.day

\* claim_date.strftime("%Y-%m-%d"): the fields of "YYYY-MM-DD".
Strftime(ts) == <<ts \div 10000, (ts \div 100) % 100, ts % 100>>

\* The calendar date a "YYYY-MM-DD" table cell denotes.
DateOfCell(c) == c[1] * 10000 + c[2] * 100 + c[3]

Ts(y, m, d) == y * 10000 + m * 100 + d

(***************************************************************************)
(* Listing pages.                                                          *)
(***************************************************************************)
BASE_URL == "https://www.politifact.com/factchecks/list/"

Hrefs == {"?page=2"}

\* urljoin(base_url, href)
Urljoin(base, href) ==
    IF href = "?page=2"
    THEN "https://www.politifact.com/factchecks/list/?page=2"
    ELSE base

DateText(mo, d, y) == [month |-> mo, day |-> d, year |-> y]

\* div.m-statement__desc of a card: absent, without a "stated on" date, or
\* with one.
NoDateBlock == [kind |-> "absent"]
NoStatedOn == [kind |-> "nomatch"]
StatedOn(t) == [kind |-> "stated", text |-> t]

OlderText == DateText("December", 20, 2023)
InRangeText == DateText("January", 10, 2024)
NewerText == DateText("February", 15, 2024)
\* matches the regex, is no date
BadText == DateText("February", 30, 2024)
NoMonthText == DateText("Foo", 10, 2024)

StatementTags == {NONE, "", "Stmt"}
FooterBy == "By Jane Doe * January 11, 2024"
FooterNoBy == "January 11, 2024"
\* a.m-statement__name, footer.m-statement__footer and the img alt of a card:
\* all absent, all there, all there with a footer that names no author
Profiles == {<<NONE, NONE, NONE>>,
             <<"Some Source", FooterBy, "half-true">>,
             <<"Some Source", FooterNoBy, "half-true">>}

Card(db, st, so, fo, la) ==
    [date_block |-> db, statement |-> st, source |-> so, footer |-> fo, label |-> la]

\* Cards with every combination of statement and profile, for one date text.
CardsDated(t, stmts) ==
    {Card(StatedOn(t), st, p[1], p[2], p[3]) : st \in stmts, p \in Profiles}

\* The cards a page may carry: every combination on the date that can fall
\* in the range, one plain card for each other shape of date block.
Cards ==
    CardsDated(InRangeText, StatementTags)
    \cup {Card(db, "Stmt", "Some Source", FooterBy, "half-true") :
            db \in {NoDateBlock, NoStatedOn, StatedOn(BadText), StatedOn(NoMonthText),
                    StatedOn(OlderText), StatedOn(NewerText)}}

\* re.search(r"By\s+([^•]+)", footer.text): the match, or NONE.
AuthorMatch(footer) ==
    IF footer = FooterBy THEN "Jane Doe" ELSE NONE

\* label_img["alt"].replace("-", " ").title()
TitleLabel(alt) ==
    IF alt = "half-true" THEN "Half True" ELSE alt

(***************************************************************************)
(* scrape_politifact                                                       *)
(***************************************************************************)
MAX_PAGES == 40

\* Lines 114-125 for a card whose date is in the range: the fields are
\* read, and the row is written when the statement is not empty.
CardFields(card, claim_date) ==
    IF card.footer # NONE /\ AuthorMatch(card.footer) = NONE
    THEN [kind |-> "raise", claim_date |-> claim_date]
    ELSE IF card.statement \in {NONE, ""}
    THEN [kind |-> "continue", claim_date |-> claim_date]
    ELSE [kind |-> "row", claim_date |-> claim_date,
          row |-> [author |-> IF card.footer = NONE THEN NONE
                              ELSE AuthorMatch(card.footer),
                   statement |-> card.statement,
                   source |-> card.source,
                   date |-> Strftime(claim_date),
                   label |-> IF card.label = NONE THEN NONE
                             ELSE TitleLabel(card.label)]]

\* The loop body with the test of line 111 reduced to its lower bound.
CardOutcome_NoEndTest(card, start, end) ==
    LET db == card.date_block IN
    IF db.kind = "absent" THEN [kind |-> "continue", claim_date |-> 0]
    ELSE IF db.kind = "nomatch" THEN [kind |-> "continue", claim_date |-> 0]
    ELSE LET claim_date == ToDatetime(db.text) IN
    IF claim_date = VALUE_ERROR THEN [kind |-> "continue", claim_date |-> 0]
    ELSE IF claim_date < start THEN [kind |-> "break", claim_date |-> claim_date]
    ELSE CardFields(card, claim_date)

\* The body of the loop over the cards of a page, for one card: what it does
\* with the card (continue, break, raise, or write a row): lines 95-125.
CardOutcome(card, start, end) ==
    LET db == card.date_block IN
    IF db.kind = "absent" THEN [kind |-> "continue", claim_date |-> 0]
    ELSE IF db.kind = "nomatch" THEN [kind |-> "continue", claim_date |-> 0]
    ELSE LET claim_date == ToDatetime(db.text) IN
    IF claim_date = VALUE_ERROR THEN [kind |-> "continue", claim_date |-> 0]
    ELSE IF claim_date < start THEN [kind |-> "break", claim_date |-> claim_date]
    ELSE IF ~(start <= claim_date /\ claim_date <= end)
         THEN [kind |-> "continue", claim_date |-> claim_date]
    ELSE CardFields(card, claim_date)

\* csv.writer writes None as the empty field; pd.read_csv reads the empty
\* field as NaN.
CsvField(v) == IF v = NONE THEN "" ELSE v
ReadField(s) == IF s = "" THEN NAN ELSE s

ReadRow(r) ==
    [author |-> ReadField(CsvField(r.author)),
     statement |-> ReadField(CsvField(r.statement)),
     source |-> ReadField(CsvField(r.source)),
     date |-> r.date,
     label |-> ReadField(CsvField(r.label))]

RECURSIVE DropNaStatement(_)
DropNaStatement(rows) ==
    IF rows = <<>> THEN <<>>
    ELSE IF Head(rows).statement = NAN THEN DropNaStatement(Tail(rows))
    ELSE <<Head(rows)>> \o DropNaStatement(Tail(rows))

RECURSIVE DropNaAny(_)
DropNaAny(rows) ==
    IF rows = <<>> THEN <<>>
    ELSE IF NAN \in {Head(rows).author, Head(rows).statement, Head(rows).source,
                     Head(rows).label}
         THEN DropNaAny(Tail(rows))
    ELSE <<Head(rows)>> \o DropNaAny(Tail(rows))

\* dropna() without the subset: a row with any empty cell is dropped.
ReadCsvDropna_AnyColumn(buf) == DropNaAny([i \in 1..Len(buf) |-> ReadRow(buf[i])])

\* pd.read_csv(buffer).dropna(subset=["statement"])
ReadCsvDropna(buf) == DropNaStatement([i \in 1..Len(buf) |-> ReadRow(buf[i])])

\* The cards the page under the parser may carry next.
PageCards ==
    IF listing # <<>> THEN CardsDated(Head(listing), {"Stmt"}) ELSE Cards

\* The test of the while loop: line 83.
LoopCond == next_page # NONE /\ page_count < MAX_PAGES

\* session.get succeeds and the page parses: lines 84-89.
FetchOk ==
    /\ spc = "while"
    /\ LoopCond
    /\ page_count' = page_count + 1
    /\ \E n \in 0..MaxCards, btn \in Hrefs \cup {NONE} :
          /\ soup' = [cards |-> IF listing # <<>> THEN Len(listing) ELSE n,
                      next_btn |-> btn]
          /\ first_no_next' = IF first_no_next = 0 /\ btn = NONE
                              THEN page_count + 1 ELSE first_no_next
    /\ last_date' = 0
    /\ spc' = "cards"
    /\ UNCHANGED <<start_date, end_date, next_page, total_rows, buffer, df,
                   data_file, errors, older_seen, listing>>
    /\ UNCHANGED <<cleanVars, verifyVars, classifyVars>>

\* The except branch without its break: the loop goes on to request the
\* page again.
FetchFail_Retry ==
    /\ spc = "while"
    /\ LoopCond
    /\ page_count' = page_count + 1
    /\ errors' = errors + 1
    /\ spc' = "while"
    /\ UNCHANGED <<start_date, end_date, next_page, total_rows, buffer, soup, df,
                   data_file, older_seen, last_date, listing, first_no_next>>
    /\ UNCHANGED <<cleanVars, verifyVars, classifyVars>>

\* session.get or raise_for_status raises: lines 84-92.
FetchFail ==
    /\ spc = "while"
    /\ LoopCond
    /\ page_count' = page_count + 1
    /\ errors' = errors + 1
    /\ spc' = "finish"
    /\ UNCHANGED <<start_date, end_date, next_page, total_rows, buffer, soup, df,
                   data_file, older_seen, last_date, listing, first_no_next>>
    /\ UNCHANGED <<cleanVars, verifyVars, classifyVars>>

\* One iteration of the loop over the cards: lines 94-125.
ExamineCard ==
    /\ spc = "cards"
    /\ soup.cards > 0
    /\ \E card \in PageCards :
          LET o == CardOutcome(card, start_date, end_date) IN
          /\ (o.kind = "row" /\ listing = <<>>) => Len(buffer) < MaxRows
          /\ last_date' = o.claim_date
          /\ soup' = [soup EXCEPT !.cards = @ - 1]
          /\ listing' = IF listing = <<>> \/ o.kind = "break" THEN <<>>
                        ELSE Tail(listing)
          /\ next_page' = IF o.kind = "break" THEN NONE ELSE next_page
          /\ older_seen' = (older_seen \/ o.kind = "break")
          /\ spc' = CASE o.kind = "break" -> "next_btn"
                      [] o.kind = "raise" -> "raised"
                      [] OTHER -> "cards"
          /\ buffer' = IF o.kind = "row" THEN Append(buffer, o.row) ELSE buffer
          /\ total_rows' = IF o.kind = "row" THEN total_rows + 1 ELSE total_rows
    /\ UNCHANGED <<start_date, end_date, page_count, df, data_file, errors,
                   first_no_next>>
    /\ UNCHANGED <<cleanVars, verifyVars, classifyVars>>

\* Line 128 without its else: a page without a Next link leaves next_page
\* as it was.
AfterCards_KeepPage ==
    /\ \/ spc = "next_btn"
       \/ spc = "cards" /\ soup.cards = 0
    /\ next_page' = IF soup.next_btn # NONE THEN Urljoin(BASE_URL, soup.next_btn)
                    ELSE next_page
    /\ spc' = "while"
    /\ UNCHANGED <<start_date, end_date, page_count, total_rows, buffer, soup, df,
                   data_file, errors, older_seen, last_date, listing, first_no_next>>
    /\ UNCHANGED <<cleanVars, verifyVars, classifyVars>>

\* After the loop over the cards, or its break: lines 127-129.
AfterCards ==
    /\ \/ spc = "next_btn"
       \/ spc = "cards" /\ soup.cards = 0
    /\ next_page' = IF soup.next_btn # NONE THEN Urljoin(BASE_URL, soup.next_btn)
                    ELSE NONE
    /\ spc' = "while"
    /\ UNCHANGED <<start_date, end_date, page_count, total_rows, buffer, soup, df,
                   data_file, errors, older_seen, last_date, listing, first_no_next>>
    /\ UNCHANGED <<cleanVars, verifyVars, classifyVars>>

\* The loop is left: lines 131-134.
Finish ==
    /\ \/ spc = "finish"
       \/ spc = "while" /\ ~LoopCond
    /\ df' = ReadCsvDropna(buffer)
    /\ data_file' = df'
    /\ spc' = "done"
    /\ UNCHANGED <<start_date, end_date, next_page, page_count, total_rows, buffer,
                   soup, errors, older_seen, last_date, listing, first_no_next>>
    /\ UNCHANGED <<cleanVars, verifyVars, classifyVars>>

\* The ranges the sidebar passes: a month, and an end before the start (the
\* two date inputs are not validated against each other).
StartDates == {Ts(2024, 1, 1)}
EndDates == {Ts(2024, 1, 31), Ts(2023, 12, 1)}

\* scrape_politifact(start_date, end_date) is entered: lines 73-81.
ScrapeInit ==
    /\ start_date \in StartDates
    /\ end_date \in EndDates
    /\ next_page = BASE_URL
    /\ page_count = 0
    /\ total_rows = 0
    /\ buffer = <<>>
    /\ soup = [cards |-> 0, next_btn |-> NONE]
    /\ spc = "while"
    /\ df = <<>>
    /\ data_file = <<>>
    /\ errors = 0
    /\ older_seen = FALSE
    /\ last_date = 0
    /\ first_no_next = 0

ScrapeNext == FetchOk \/ FetchFail \/ ExamineCard \/ AfterCards \/ Finish

Terminated == spc \in {"done", "raised"}

(***************************************************************************)
(* clean_text.  A text is a sequence of characters.                        *)
(***************************************************************************)
\* longest argument of clean_text the model draws
MaxLen == 5
\* the length clean_text truncates to: 250 in final.py line 32, scaled down
QueryLimit == 3

\* the characters of the class ["'.,!?] and the two curly double quotes
PUNCTUATION == {"\"", "'", ".", ",", "!", "?", "<ldquo>", "<rdquo>"}
\* the characters \s matches
WHITESPACE == {" ", "\t", "\n"}

Str(chars) == [type |-> "str", chars |-> chars]
NotAStr == [type |-> "float"]

\* re.sub(r'[...]', '', text)
RECURSIVE RemovePunct(_)
RemovePunct(t) ==
    IF t = <<>> THEN <<>>
    ELSE IF Head(t) \in PUNCTUATION THEN RemovePunct(Tail(t))
    ELSE <<Head(t)>> \o RemovePunct(Tail(t))

RECURSIVE LStrip(_)
LStrip(t) ==
    IF t # <<>> /\ Head(t) \in WHITESPACE THEN LStrip(Tail(t)) ELSE t

RECURSIVE RStrip(_)
RStrip(t) ==
    IF t # <<>> /\ t[Len(t)] \in WHITESPACE THEN RStrip(SubSeq(t, 1, Len(t) - 1))
    ELSE t

\* str.strip()
Strip(t) == RStrip(LStrip(t))

\* re.sub(r'\s+', ' ', text)
RECURSIVE CollapseWs(_)
CollapseWs(t) ==
    IF t = <<>> THEN <<>>
    ELSE IF Head(t) \in WHITESPACE THEN <<" ">> \o CollapseWs(LStrip(t))
    ELSE <<Head(t)>> \o CollapseWs(Tail(t))

\* text[:n]
Prefix(t, n) == SubSeq(t, 1, IF Len(t) < n THEN Len(t) ELSE n)

\* lines 30-31 in the other order: whitespace collapsed before the
\* punctuation is removed
clean_text_swapped(text) ==
    IF text.type # "str" THEN <<>>
    ELSE Prefix(Strip(RemovePunct(CollapseWs(text.chars))), QueryLimit)

\* clean_text: lines 26-32
clean_text(text) ==
    IF text.type # "str" THEN <<>>
    ELSE Prefix(Strip(CollapseWs(RemovePunct(text.chars))), QueryLimit)

Alphabet == {"a", " ", "\t", "."}

Texts(n) == UNION {[1..k -> Alphabet] : k \in 0..n}

CleanInit ==
    /\ text_in \in {Str(t) : t \in Texts(MaxLen)} \cup {NotAStr}
    /\ text_once = <<>>
    /\ text_twice = <<>>
    /\ cpc = 0

CleanIdle ==
    /\ text_in = Str(<<>>)
    /\ text_once = <<>>
    /\ text_twice = <<>>
    /\ cpc = 0

\* clean_text(text_in)
CleanOnce ==
    /\ cpc = 0
    /\ text_once' = clean_text(text_in)
    /\ cpc' = 1
    /\ UNCHANGED <<text_in, text_twice>>
    /\ UNCHANGED <<scrapeVars, verifyVars, classifyVars>>

\* clean_text of the result
CleanTwice ==
    /\ cpc = 1
    /\ text_twice' = clean_text(Str(text_once))
    /\ cpc' = 2
    /\ UNCHANGED <<text_in, text_once>>
    /\ UNCHANGED <<scrapeVars, verifyVars, classifyVars>>

CleanNext == CleanOnce \/ CleanTwice

(***************************************************************************)
(* get_fact_check_result: the response of the fact-check API.              *)
(***************************************************************************)
\* claims a response body carries at most
MaxClaims == 2
\* reviews a claim carries at most
MaxReviews == 1

\* the lower-case letter of each upper-case letter
LowerCase ==
    [A |-> "a", B |-> "b", C |-> "c", D |-> "d", E |-> "e", F |-> "f", G |-> "g",
     H |-> "h", I |-> "i", J |-> "j", K |-> "k", L |-> "l", M |-> "m", N |-> "n",
     O |-> "o", P |-> "p", Q |-> "q", R |-> "r", S |-> "s", T |-> "t", U |-> "u",
     V |-> "v", W |-> "w", X |-> "x", Y |-> "y", Z |-> "z"]

\* str.lower()
Lower(t) ==
    [i \in 1..Len(t) |-> IF t[i] \in DOMAIN LowerCase THEN LowerCase[t[i]] ELSE t[i]]

\* k in text
Contains(text, k) ==
    \E i \in 1..(Len(text) - Len(k) + 1) : SubSeq(text, i, i + Len(k) - 1) = k

KW_FALSE == <<"f", "a", "l", "s", "e">>
KW_MISLEADING == <<"m", "i", "s", "l", "e", "a", "d", "i", "n", "g">>
KW_PANTS == <<"p", "a", "n", "t", "s">>
KW_TRUE == <<"t", "r", "u", "e">>
KW_ACCURATE == <<"a", "c", "c", "u", "r", "a", "t", "e">>
KW_CORRECT == <<"c", "o", "r", "r", "e", "c", "t">>
KW_MOSTLY_TRUE == <<"m", "o", "s", "t", "l", "y", " ", "t", "r", "u", "e">>
RATING_FALSE == <<"F", "a", "l", "s", "e">>
RATING_MOSTLY_TRUE == <<"M", "o", "s", "t", "l", "y", " ", "T", "r", "u", "e">>
RATING_UNSUBSTANTIATED == <<"U", "n", "s", "u", "b", "s", "t", "a", "n", "t", "i", "a", "t", "e", "d">>
RATING_TRUE_BUT_MISLEADING == <<"T", "r", "u", "e", " ", "b", "u", "t", " ", "M", "i", "s", "l", "e", "a", "d", "i", "n", "g">>
RATING_PANTS == <<"P", "a", "n", "t", "s", " ", "o", "n", " ", "F", "i", "r", "e">>

\* the keyword lists of lines 59 and 61
FALSE_KEYWORDS == {KW_FALSE, KW_MISLEADING, KW_PANTS}
TRUE_KEYWORDS == {KW_TRUE, KW_ACCURATE, KW_CORRECT, KW_MOSTLY_TRUE}

\* None in a field that otherwise holds a text
NONE_TEXT == <<NONE>>

\* A JSON member: absent, null, or a value.
Absent == [kind |-> "absent"]
Null == [kind |-> "null"]
Val(v) == [kind |-> "value", v |-> v]

Review(rating, publisher, url) ==
    [textualRating |-> rating, publisher |-> publisher, url |-> url]

Publisher(name) == Val([name |-> Val(name)])

\* The reviews a response may carry: ratings of both keyword sets, of neither
\* and of both; members absent or null.
Reviews ==
    { Review(Val(RATING_FALSE), Publisher("PolitiFact"), Val("https://pf/1")),
      Review(Val(RATING_MOSTLY_TRUE), Publisher("Snopes"), Val("https://sn/2")),
      Review(Val(RATING_UNSUBSTANTIATED), Publisher("PolitiFact"), Val("https://pf/3")),
      Review(Val(RATING_TRUE_BUT_MISLEADING), Publisher("Snopes"), Val("https://sn/4")),
      Review(Absent, Absent, Absent),
      Review(Null, Publisher("Snopes"), Val("https://sn/5")),
      Review(Val(RATING_PANTS), Null, Null) }

SeqsUpTo(S, n) == UNION {[1..k -> S] : k \in 0..n}

\* claim objects: claimReview absent, null, or a list
ClaimObjects(nr) ==
    {[claimReview |-> Absent], [claimReview |-> Null]}
    \cup {[claimReview |-> Val(rs)] : rs \in SeqsUpTo(Reviews, nr)}

\* response bodies: claims absent, null, or a list
Bodies(nc, nr) ==
    {[claims |-> Absent], [claims |-> Null]}
    \cup {[claims |-> Val(cs)] : cs \in SeqsUpTo(ClaimObjects(nr), nc)}

Result(verdict, publisher, rating, url) ==
    [verdict |-> verdict, publisher |-> publisher, rating |-> rating, url |-> url]

Unverified == Result("Unverified", NONE, NONE_TEXT, NONE)
KeyMissing == Result("API Key Missing", NONE, NONE_TEXT, NONE)
ApiError(msg) == Result("API Error", NONE, msg, NONE)
\* an exception other than requests.RequestException leaves the function
Raised == Result(RAISED, NONE, NONE_TEXT, NONE)

\* lines 55-57 for one review whose members are not null: the lower-cased
\* rating, the publisher's name and the url, with their defaults
ReviewFields(review) ==
    [rating_text |-> IF review.textualRating.kind = "absent" THEN <<>>
                     ELSE Lower(review.textualRating.v),
     publisher |-> IF review.publisher.kind = "absent" THEN "Unknown"
                   ELSE IF review.publisher.v.name.kind = "absent" THEN "Unknown"
                   ELSE IF review.publisher.v.name.kind = "null" THEN NONE
                   ELSE review.publisher.v.name.v,
     url |-> IF review.url.kind = "absent" THEN ""
             ELSE IF review.url.kind = "null" THEN NONE
             ELSE review.url.v]

\* lines 59-62 in the other order: the True keywords tested first
ReviewOutcome_TrueFirst(review) ==
    IF review.textualRating.kind = "null" THEN Raised
    ELSE IF review.publisher.kind = "null" THEN Raised
    ELSE
    LET f == ReviewFields(review) IN
    IF \E k \in TRUE_KEYWORDS : Contains(f.rating_text, k)
    THEN Result("True", f.publisher, f.rating_text, f.url)
    ELSE IF \E k \in FALSE_KEYWORDS : Contains(f.rating_text, k)
    THEN Result("False", f.publisher, f.rating_text, f.url)
    ELSE Unverified

\* lines 55-62 for one review: the result returned, Raised, or Unverified
\* when the loop goes on to the next review
ReviewOutcome(review) ==
    IF review.textualRating.kind = "null" THEN Raised
    ELSE IF review.publisher.kind = "null" THEN Raised
    ELSE
    LET f == ReviewFields(review) IN
    IF \E k \in FALSE_KEYWORDS : Contains(f.rating_text, k)
    THEN Result("False", f.publisher, f.rating_text, f.url)
    ELSE IF \E k \in TRUE_KEYWORDS : Contains(f.rating_text, k)
    THEN Result("True", f.publisher, f.rating_text, f.url)
    ELSE Unverified

\* the loop of line 54 over the reviews of one claim
RECURSIVE ReviewsLoop(_)
ReviewsLoop(rs) ==
    IF rs = <<>> THEN Unverified
    ELSE LET o == ReviewOutcome(Head(rs)) IN
         IF o # Unverified THEN o ELSE ReviewsLoop(Tail(rs))

\* the loop of line 53 over the claims
RECURSIVE ClaimsLoop(_)
ClaimsLoop(cs) ==
    IF cs = <<>> THEN Unverified
    ELSE LET cr == Head(cs).claimReview
             o == IF cr.kind = "absent" THEN Unverified
                  ELSE IF cr.kind = "null" THEN Raised
                  ELSE ReviewsLoop(cr.v)
         IN IF o # Unverified THEN o ELSE ClaimsLoop(Tail(cs))

\* lines 51-63: what a JSON body of a successful response is turned into
FromBody(body) ==
    IF body.claims.kind = "absent" THEN Unverified
    ELSE IF body.claims.kind = "null" THEN Raised
    ELSE ClaimsLoop(body.claims.v)

(***************************************************************************)
(* get_fact_check_result under st.cache_data(ttl=CACHE_TTL), and           *)
(* verify_all.                                                             *)
(***************************************************************************)
CACHE_TTL == 24 * 60 * 60

\* rows of the table verify_all is given, at most
MaxDfRows == 2
\* advances of the clock, at most
MaxTicks == 2

MSG_TIMEOUT == <<"Read timed out.">>
MSG_HTTP == <<"403 Client Error">>

\* What requests.get and raise_for_status come to: a transport exception, an
\* HTTP error status, or a JSON body.
\* The bodies verify_all's requests are answered with: no claims, one claim
\* with one review rated false, and a body with "claims": null.
VerifyBodies ==
    {[claims |-> Val(<<>>)],
     [claims |-> Null],
     [claims |-> Val(<<[claimReview |-> Val(<<
         Review(Val(RATING_FALSE), Publisher("PolitiFact"), Val("https://pf/1"))>>)]>>)]}

ApiOutcomes ==
    {[kind |-> "timeout"], [kind |-> "http_error"]}
    \cup {[kind |-> "ok", body |-> b] : b \in VerifyBodies}

\* get_fact_check_result's own body: lines 40-66
FetchResult(statement, key, outcome) ==
    IF key = NONE THEN KeyMissing
    ELSE LET query == clean_text(statement) IN
         IF query = <<>> THEN Unverified
         ELSE IF outcome.kind = "timeout" THEN ApiError(MSG_TIMEOUT)
         ELSE IF outcome.kind = "http_error" THEN ApiError(MSG_HTTP)
         ELSE FromBody(outcome.body)

\* whether the body reaches requests.get: lines 40-49
UsesNetwork(statement, key) == key # NONE /\ clean_text(statement) # <<>>

\* an entry of the cache is served until ttl seconds after it was stored
Fresh(entry, t) == t < entry.stored + CACHE_TTL

Purge(c, t) == [k \in {x \in DOMAIN c : Fresh(c[x], t)} |-> c[k]]

Store(c, k, value, t) ==
    LET p == Purge(c, t) IN
    [x \in DOMAIN p \cup {k} |-> IF x = k THEN [value |-> value, stored |-> t]
                                 ELSE p[x]]

\* The memoised call storing verdicts only: an API Error is computed again
\* by the next call.
CachedCall_SkipErrors(c, statement, key, t, outcome) ==
    IF statement.chars \in DOMAIN c /\ Fresh(c[statement.chars], t)
    THEN [value |-> c[statement.chars].value, cache |-> c, network |-> FALSE,
          hit |-> TRUE]
    ELSE LET r == FetchResult(statement, key, outcome) IN
         [value |-> r,
          cache |-> IF r = Raised \/ r.verdict = "API Error" THEN c
                    ELSE Store(c, statement.chars, r, t),
          network |-> UsesNetwork(statement, key),
          hit |-> FALSE]

\* A call of the memoised function at time t: the value it returns (or
\* Raised), the cache afterwards, whether the network was used.  The key is
\* the argument as passed; a value is stored whenever the body returns.
CachedCall(c, statement, key, t, outcome) ==
    IF statement.chars \in DOMAIN c /\ Fresh(c[statement.chars], t)
    THEN [value |-> c[statement.chars].value, cache |-> c, network |-> FALSE,
          hit |-> TRUE]
    ELSE LET r == FetchResult(statement, key, outcome) IN
         [value |-> r,
          cache |-> IF r = Raised THEN c ELSE Store(c, statement.chars, r, t),
          network |-> UsesNetwork(statement, key),
          hit |-> FALSE]

VStatements == {<<"a", ".">>, <<"a">>, <<".">>}

Pending == Result("<pending>", NONE, NONE_TEXT, NONE)
NoCall == [statement |-> <<>>, network |-> FALSE, hit |-> FALSE, value |-> Pending,
           failed |-> FALSE]

\* a button press starts verify_all on the session's table, of vrows rows:
\* lines 140-141
VerifyStart ==
    /\ vpc \in {"idle", "returned", "raised"}
    /\ vrows' \in 1..MaxDfRows
    /\ vdf' = <<>>
    /\ results' = <<>>
    /\ out' = <<>>
    /\ vpc' = "loop"
    /\ last_call' = NoCall
    /\ UNCHANGED <<FACT_API_KEY, cache, now, ticks, anchor>>
    /\ UNCHANGED <<scrapeVars, cleanVars, classifyVars>>

\* the calls for which requests.get or raise_for_status raised
Failed(call, outcome) ==
    ~call.hit /\ call.network /\ outcome.kind \in {"timeout", "http_error"}

\* The loop leaving the table at the first row whose result is an API Error.
VerifyRow_Abort ==
    /\ vpc = "loop"
    /\ Len(results) < vrows
    /\ \E statement \in VStatements, outcome \in ApiOutcomes :
          LET call == CachedCall(cache, Str(statement), FACT_API_KEY, now, outcome) IN
          /\ vdf' = Append(vdf, statement)
          /\ cache' = call.cache
          /\ last_call' = [statement |-> statement, network |-> call.network,
                           hit |-> call.hit, value |-> call.value,
                           failed |-> Failed(call, outcome)]
          /\ anchor' = IF call.hit \/ call.value = Raised THEN anchor
                       ELSE LET live == {x \in DOMAIN anchor :
                                           now - anchor[x].at < CACHE_TTL}
                            IN [x \in live \cup {statement} |->
                                  IF x = statement
                                  THEN [value |-> call.value, at |-> now]
                                  ELSE anchor[x]]
          /\ IF call.value = Raised \/ call.value.verdict = "API Error"
             THEN vpc' = "raised" /\ results' = results
             ELSE vpc' = "loop" /\ results' = Append(results, call.value)
    /\ UNCHANGED <<FACT_API_KEY, now, ticks, vrows, out>>
    /\ UNCHANGED <<scrapeVars, cleanVars, classifyVars>>

\* one iteration of the loop over the rows, the row holding any statement:
\* lines 143-146
VerifyRow ==
    /\ vpc = "loop"
    /\ Len(results) < vrows
    /\ \E statement \in VStatements, outcome \in ApiOutcomes :
          LET call == CachedCall(cache, Str(statement), FACT_API_KEY, now, outcome) IN
          /\ vdf' = Append(vdf, statement)
          /\ cache' = call.cache
          /\ last_call' = [statement |-> statement, network |-> call.network,
                           hit |-> call.hit, value |-> call.value,
                           failed |-> Failed(call, outcome)]
          /\ anchor' = IF call.hit \/ call.value = Raised THEN anchor
                       ELSE LET live == {x \in DOMAIN anchor :
                                           now - anchor[x].at < CACHE_TTL}
                            IN [x \in live \cup {statement} |->
                                  IF x = statement
                                  THEN [value |-> call.value, at |-> now]
                                  ELSE anchor[x]]
          /\ IF call.value = Raised
             THEN vpc' = "raised" /\ results' = results
             ELSE vpc' = "loop" /\ results' = Append(results, call.value)
    /\ UNCHANGED <<FACT_API_KEY, now, ticks, vrows, out>>
    /\ UNCHANGED <<scrapeVars, cleanVars, classifyVars>>

\* the four columns are added and the table returned: lines 148-152
VerifyFinish ==
    /\ vpc = "loop"
    /\ Len(results) = vrows
    /\ out' = [i \in 1..Len(vdf) |->
                 [statement |-> vdf[i],
                  google_verdict |-> results[i].verdict,
                  publisher |-> results[i].publisher,
                  google_rating |-> results[i].rating,
                  fact_url |-> results[i].url]]
    /\ vpc' = "returned"
    /\ UNCHANGED <<FACT_API_KEY, cache, now, ticks, anchor, last_call, vrows, vdf,
                   results>>
    /\ UNCHANGED <<scrapeVars, cleanVars, classifyVars>>

\* time passes: half the ttl
Tick ==
    /\ ticks < MaxTicks
    /\ now' = now + CACHE_TTL \div 2
    /\ ticks' = ticks + 1
    /\ UNCHANGED <<FACT_API_KEY, cache, anchor, last_call, vpc, vrows, vdf, results,
                   out>>
    /\ UNCHANGED <<scrapeVars, cleanVars, classifyVars>>

VerifyInit ==
    /\ FACT_API_KEY \in {NONE, "key"}
    /\ cache = <<>>
    /\ now = 0
    /\ ticks = 0
    /\ anchor = <<>>
    /\ last_call = NoCall
    /\ vpc = "idle"
    /\ vrows = 0
    /\ vdf = <<>>
    /\ results = <<>>
    /\ out = <<>>

VerifyIdle ==
    /\ FACT_API_KEY = NONE
    /\ cache = <<>>
    /\ now = 0
    /\ ticks = 0
    /\ anchor = <<>>
    /\ last_call = NoCall
    /\ vpc = "idle"
    /\ vrows = 0
    /\ vdf = <<>>
    /\ results = <<>>
    /\ out = <<>>

VerifyNext == VerifyStart \/ VerifyRow \/ VerifyFinish \/ Tick

\* get_fact_check_result on one response body, the credential configured
ClassifyInit ==
    /\ api_body \in Bodies(MaxClaims, MaxReviews)
    /\ api_result = Pending

ClassifyIdle ==
    /\ api_body = [claims |-> Absent]
    /\ api_result = Pending

Classify ==
    /\ api_result = Pending
    /\ api_result' = FetchResult(Str(<<"a">>), "key", [kind |-> "ok", body |-> api_body])
    /\ UNCHANGED api_body
    /\ UNCHANGED <<scrapeVars, cleanVars, verifyVars>>

ScrapeIdle ==
    /\ start_date = Ts(2024, 1, 1)
    /\ end_date = Ts(2024, 1, 31)
    /\ next_page = BASE_URL
    /\ page_count = 0
    /\ total_rows = 0
    /\ buffer = <<>>
    /\ soup = [cards |-> 0, next_btn |-> NONE]
    /\ spc = "while"
    /\ df = <<>>
    /\ data_file = <<>>
    /\ errors = 0
    /\ older_seen = FALSE
    /\ last_date = 0
    /\ first_no_next = 0
    /\ listing = <<>>

(***************************************************************************)
(* Specifications.                                                         *)
(***************************************************************************)
\* one run of scrape_politifact over any pages
Init == ScrapeInit /\ listing = <<>> /\ CleanIdle /\ VerifyIdle /\ ClassifyIdle
SpecScrape == Init /\ [][ScrapeNext]_vars
\* the same, the scheduler running the function to its end
SpecScrapeFair == Init /\ [][ScrapeNext]_vars /\ WF_vars(ScrapeNext)

\* one run over the listing of the date-filter example on the first page
C8Listing == <<DateText("January", 10, 2024), DateText("January", 5, 2024),
               DateText("December", 20, 2023)>>
InitListing ==
    /\ ScrapeInit /\ end_date = Ts(2024, 1, 31) /\ listing = C8Listing
    /\ CleanIdle /\ VerifyIdle /\ ClassifyIdle
SpecListing == InitListing /\ [][ScrapeNext]_vars

\* clean_text applied twice to any text
InitClean == ScrapeIdle /\ CleanInit /\ VerifyIdle /\ ClassifyIdle
SpecClean == InitClean /\ [][CleanNext]_vars

\* get_fact_check_result on any response body
InitClassify == ScrapeIdle /\ CleanIdle /\ VerifyIdle /\ ClassifyInit
SpecClassify == InitClassify /\ [][Classify]_vars

\* verify_all pressed any number of times while time passes
InitVerify == ScrapeIdle /\ CleanIdle /\ VerifyInit /\ ClassifyIdle
SpecVerify == InitVerify /\ [][VerifyNext]_vars

(***************************************************************************)
(* Properties of scrape_politifact.                                        *)
(***************************************************************************)
\* a step of the loop over the cards that examined one card
CardExamined == spc = "cards" /\ soup'.cards = soup.cards - 1

InRangeCell(c) == start_date <= DateOfCell(c) /\ DateOfCell(c) <= end_date

\* a cell read back from the csv against the field written
SameField(cell, field) ==
    IF field = NONE THEN cell = NAN ELSE cell = field

SameRow(r, w) ==
    /\ SameField(r.author, w.author)
    /\ r.statement = w.statement
    /\ SameField(r.source, w.source)
    /\ r.date = w.date
    /\ SameField(r.label, w.label)

\* C1: once an item dated before start_date was encountered, no further item
\* is examined and no further page is fetched.
C1_OlderStopsCollection ==
    [][older_seen => (page_count' = page_count /\ ~CardExamined)]_vars

\* C4 as stated: every row written and returned is dated within
\* [start_date, end_date], and an item dated after end_date is skipped
\* without stopping the scan of its page.
C4_AfterEndSkipped ==
    /\ [](\A i \in 1..Len(df) : InRangeCell(df[i].date))
    /\ [][(CardExamined /\ last_date' > end_date) =>
            (spc' = "cards" /\ buffer' = buffer /\ next_page' = next_page)]_vars

\* C4 amended: every row written and returned is dated within
\* [start_date, end_date], the file holds the returned table, and an item
\* dated after end_date and not before start_date is skipped without
\* stopping the scan of its page.
C4_RowsInRange ==
    /\ [](\A i \in 1..Len(buffer) : InRangeCell(buffer[i].date))
    /\ [](spc = "done" =>
            /\ \A i \in 1..Len(df) : InRangeCell(df[i].date)
            /\ data_file = df)
    /\ [][(CardExamined /\ last_date' > end_date /\ last_date' >= start_date) =>
            (spc' = "cards" /\ buffer' = buffer /\ next_page' = next_page)]_vars

\* a run returned rows, after having skipped an item dated after end_date
\* on the page it took a row from
C4_Witness ==
    /\ spc = "cards" /\ last_date > end_date /\ last_date >= start_date
    /\ Len(buffer) >= 1 /\ soup.cards >= 1

\* C5: no failure path propagates a fault to the caller: the run never ends
\* in an exception.
C5_NoFault == spc # "raised"

\* C6: if the fetch of page k fails, no page is requested afterwards (none
\* after k, no retry of k), no row is added or lost, and the table returned
\* holds exactly the rows written from pages 1..k-1.
C6_FetchFailureKeepsRows ==
    /\ [][errors' # errors =>
            (errors' = errors + 1 /\ page_count' = page_count + 1
             /\ buffer' = buffer)]_vars
    /\ [][errors >= 1 => (page_count' = page_count /\ buffer' = buffer)]_vars
    /\ []((errors >= 1 /\ spc = "done") =>
            /\ Len(df) = Len(buffer)
            /\ \A i \in 1..Len(df) : SameRow(df[i], buffer[i])
            /\ data_file = df)
    /\ [](errors >= 1 => spc \in {"finish", "done"})

\* the fetch of a page after the first failed, rows had been collected, and
\* the run returned
C6_Witness ==
    /\ spc = "done" /\ errors = 1 /\ page_count >= 2 /\ Len(df) >= 1

\* C10: every run ends; it fetches at most MAX_PAGES pages and none after
\* the first fetched page without a Next link; a run whose second page has
\* no Next link ends after exactly 2 fetches.
C10_BoundedFetches ==
    /\ <>Terminated
    /\ [](page_count <= MAX_PAGES)
    /\ [](first_no_next # 0 => page_count <= first_no_next)
    /\ []((Terminated /\ first_no_next = 2) => page_count = 2)

\* a run over two pages, the second without a Next link, has ended
C10_Witness ==
    /\ spc = "done" /\ first_no_next = 2 /\ page_count = 2 /\ errors = 0

\* a run stopped by the cap of MAX_PAGES pages
C10_CapReached ==
    /\ spc = "done" /\ page_count = MAX_PAGES /\ next_page # NONE

\* C8 as stated: of the listing dated 2024-01-10, 2024-01-05, 2023-12-20 and
\* the range [2024-01-01, 2024-01-31], only the 2024-01-10 item is returned.
C8_OnlyJan10 ==
    (spc = "done" /\ page_count = 1 /\ errors = 0) =>
        (Len(df) = 1 /\ df[1].date = <<2024, 1, 10>>)

\* C8 amended: of that listing the 2024-01-10 and the 2024-01-05 items are
\* returned, in page order, and the 2023-12-20 item is not; they are the
\* whole table when the listing is the only page.
C8_Jan10AndJan5 ==
    (spc = "done" /\ ~(page_count = 1 /\ errors = 1)) =>
        /\ Len(df) >= 2
        /\ df[1].date = <<2024, 1, 10>> /\ df[1].statement = "Stmt"
        /\ df[2].date = <<2024, 1, 5>> /\ df[2].statement = "Stmt"
        /\ \A i \in 1..Len(df) : df[i].date # <<2023, 12, 20>>
        /\ page_count = 1 => Len(df) = 2

\* the listing was the only page, and the run returned
C8_Witness ==
    /\ spc = "done" /\ page_count = 1 /\ errors = 0 /\ older_seen
    /\ Len(df) = 2

(***************************************************************************)
(* Properties of clean_text.                                               *)
(***************************************************************************)
\* the text with the punctuation removed, the whitespace runs collapsed and
\* both ends trimmed, before it is cut to the limit
Normalised(text) ==
    IF text.type # "str" THEN <<>>
    ELSE Strip(CollapseWs(RemovePunct(text.chars)))

\* C9 as stated: for every input s, clean_text(clean_text(s)) = clean_text(s).
C9_Idempotent == cpc = 2 => text_twice = text_once

\* C9 amended: clean_text(clean_text(s)) is clean_text(s) without its trailing
\* whitespace; the two are equal for every s whose normalised text is no longer
\* than the limit, and whenever clean_text(s) does not end in a space.
C9_IdempotentWithinLimit ==
    cpc = 2 =>
        /\ text_twice = RStrip(text_once)
        /\ Len(Normalised(text_in)) <= QueryLimit => text_twice = text_once
        /\ Len(Normalised(text_in)) <= QueryLimit => text_once = Normalised(text_in)
        /\ (text_once = <<>> \/ text_once[Len(text_once)] # " ") =>
              text_twice = text_once

\* clean_text was applied twice to a text with punctuation and a run of
\* whitespace that normalises to a text of the full limit, and the second
\* application changed nothing
C9_Witness ==
    /\ cpc = 2 /\ text_in.type = "str"
    /\ Len(text_in.chars) > QueryLimit
    /\ Len(Normalised(text_in)) = QueryLimit
    /\ \E i \in 1..Len(text_once) : text_once[i] = " "
    /\ text_twice = text_once

\* clean_text was applied twice to a text cut inside a run of words: the
\* second application dropped the trailing space
C9_TrailingSpace ==
    /\ cpc = 2 /\ text_once # <<>> /\ text_once[Len(text_once)] = " "
    /\ text_twice # text_once

(***************************************************************************)
(* Properties of get_fact_check_result on a response body.                 *)
(***************************************************************************)
\* the reviews of a response, claims first, the reviews of a claim in order
RECURSIVE AllReviews(_)
AllReviews(cs) ==
    IF cs = <<>> THEN <<>>
    ELSE (IF Head(cs).claimReview.kind = "value" THEN Head(cs).claimReview.v
          ELSE <<>>) \o AllReviews(Tail(cs))

BodyReviews(body) ==
    IF body.claims.kind = "value" THEN AllReviews(body.claims.v) ELSE <<>>

RatingText(r) ==
    IF r.textualRating.kind = "value" THEN Lower(r.textualRating.v) ELSE <<>>

\* the set a lower-cased rating falls in, the False set looked at first
MatchOf(t) ==
    IF \E k \in FALSE_KEYWORDS : Contains(t, k) THEN "False"
    ELSE IF \E k \in TRUE_KEYWORDS : Contains(t, k) THEN "True"
    ELSE "none"

\* the first review of rs whose rating falls in a set, or <<>>
RECURSIVE FirstMatching(_)
FirstMatching(rs) ==
    IF rs = <<>> THEN <<>>
    ELSE IF MatchOf(RatingText(Head(rs))) # "none" THEN <<Head(rs)>>
    ELSE FirstMatching(Tail(rs))

RowCalled == Len(vdf') = Len(vdf) + 1

\* the statement of the row just called
RowStatement == vdf'[Len(vdf')]

\* C2: a call for a text made less than CACHE_TTL after the call that last
\* computed a result for that text (a verdict, Unverified or API Error)
\* returns that result and issues no network request; any other call runs the
\* function again, through the network whenever the function reaches its
\* request, and what it returns opens the next window.
C2_MemoizedWithinTtl ==
    [][RowCalled =>
         LET s == RowStatement
             c == last_call'
         IN
         /\ c.statement = s
         /\ IF s \in DOMAIN anchor /\ now < anchor[s].at + CACHE_TTL
            THEN c.hit /\ c.value = anchor[s].value /\ ~c.network /\ anchor' = anchor
            ELSE /\ ~c.hit
                 /\ c.network = UsesNetwork(Str(s), FACT_API_KEY)
                 /\ c.value # Raised =>
                       /\ s \in DOMAIN anchor'
                       /\ anchor'[s] = [value |-> c.value, at |-> now]]_vars

\* a call made within the window of a call that had returned API Error was
\* answered with that API Error, without a network request, after time had
\* passed
C2_Witness ==
    /\ last_call.hit /\ ~last_call.network
    /\ last_call.value.verdict = "API Error"
    /\ last_call.statement \in DOMAIN anchor
    /\ now > anchor[last_call.statement].at

\* a call made after the window had expired was computed again through the
\* network
C2_Recomputed ==
    /\ ~last_call.hit /\ last_call.network
    /\ last_call.statement \in DOMAIN anchor
    /\ anchor[last_call.statement].at >= CACHE_TTL

\* C7: verify_all calls the Verifier once per row, in row order; unless a
\* call raises, its result is appended and the loop goes on, a transport or
\* HTTP failure being recorded as API Error; the table returned has one row
\* per row given, row i holding row i's statement and the four fields of the
\* result of the i-th call.
C7_OneResultPerRowInOrder ==
    /\ [][RowCalled =>
            /\ Len(vdf) = Len(results)
            /\ Len(vdf) < vrows
            /\ last_call'.statement = RowStatement
            /\ last_call'.failed => last_call'.value.verdict = "API Error"
            /\ last_call'.value # Raised =>
                  (vpc' = "loop" /\ results' = Append(results, last_call'.value))]_vars
    /\ [](vpc = "returned" =>
            /\ Len(out) = vrows /\ Len(vdf) = vrows /\ Len(results) = vrows
            /\ \A i \in 1..vrows :
                  /\ out[i].statement = vdf[i]
                  /\ out[i].google_verdict = results[i].verdict
                  /\ out[i].publisher = results[i].publisher
                  /\ out[i].google_rating = results[i].rating
                  /\ out[i].fact_url = results[i].url)

\* a table of two rows was returned, the first row's request having failed
\* and the second row holding a verdict
C7_Witness ==
    /\ vpc = "returned" /\ vrows = 2
    /\ out[1].google_verdict = "API Error" /\ out[1].google_rating = MSG_TIMEOUT
    /\ out[2].google_verdict = "False"

====
